---- MODULE Spec2Model ----
(***************************************************************************)
(* Model of the Hinglish translator: the response parser / reassembler of  *)
(* main_code.py (process_entire_json, the batch CLI flow) and of           *)
(* streamlit_app.py (process_json, the interactive flow), and the          *)
(* interactive session state around process_json.                          *)
(*                                                                         *)
(* Text is modelled as a sequence of one-character strings, so that        *)
(* str.strip, str.split, re.match and int are computed as Python computes  *)
(* them rather than assumed.                                               *)
(***************************************************************************)
EXTENDS Integers, Sequences, FiniteSets

(***************************************************************************)
(* Bounds of the model.                                                    *)
(***************************************************************************)
\* largest number of input items in a batch
MaxN == 3
\* largest number of lines in a response of the external call
MaxLines == 3
\* largest number of lines in a response during an interactive session
MaxSessionLines == 1

(***************************************************************************)
(* Python built-ins used by the parser.                                    *)
(***************************************************************************)
\* the characters str.strip() removes (those that occur in the model)
Whitespace == {" ", "\n", "\t"}

Digits == {"0", "1", "2", "3", "4", "5", "6", "7", "8", "9"}

SetMin(S) == CHOOSE x \in S : \A y \in S : x <= y

SetMax(S) == CHOOSE x \in S : \A y \in S : x >= y

\* str.strip(): drop leading and trailing whitespace, keep inner whitespace
strip(s) ==
  LET keep == {i \in 1..Len(s) : s[i] \notin Whitespace}
  IN  IF keep = {} THEN <<>> ELSE SubSeq(s, SetMin(keep), SetMax(keep))

\* str.split('\n'): the pieces between newlines, always at least one piece
RECURSIVE split(_)
split(s) ==
  LET nl == {i \in 1..Len(s) : s[i] = "\n"}
  IN  IF nl = {} THEN <<s>>
      ELSE LET p == SetMin(nl)
           IN  <<SubSeq(s, 1, p - 1)>> \o split(SubSeq(s, p + 1, Len(s)))

\* number of characters matched by (\d+) when the match starts at position 2
DigitRun(line) ==
  LET stop == {i \in 2..Len(line) : line[i] \notin Digits}
  IN  IF stop = {} THEN Len(line) - 1 ELSE SetMin(stop) - 2

\* re.match(r'^\[(\d+)\](.*)', line) is not None
re_match(line) ==
  /\ Len(line) >= 3
  /\ line[1] = "["
  /\ DigitRun(line) >= 1
  /\ DigitRun(line) + 2 <= Len(line)
  /\ line[DigitRun(line) + 2] = "]"

\* index_match.group(1)
group1(line) == SubSeq(line, 2, DigitRun(line) + 1)

\* index_match.group(2)
group2(line) == SubSeq(line, DigitRun(line) + 3, Len(line))

DigitVal(c) ==
  CASE c = "0" -> 0 [] c = "1" -> 1 [] c = "2" -> 2 [] c = "3" -> 3
    [] c = "4" -> 4 [] c = "5" -> 5 [] c = "6" -> 6 [] c = "7" -> 7
    [] c = "8" -> 8 [] c = "9" -> 9

\* int(): the decimal value of a string of digits
RECURSIVE int(_)
int(ds) ==
  IF ds = <<>> THEN 0
  ELSE 10 * int(SubSeq(ds, 1, Len(ds) - 1)) + DigitVal(ds[Len(ds)])

\* current_index = None
None == -1

\* f"[Translation missing for: {text}]"
MissingPrefix ==
  << "[", "T", "r", "a", "n", "s", "l", "a", "t", "i", "o", "n", " ",
     "m", "i", "s", "s", "i", "n", "g", " ", "f", "o", "r", ":", " " >>

Placeholder(text) == MissingPrefix \o text \o <<"]">>

\* the stable list.sort(key=lambda x: x[0]): insertion after the equal keys
RECURSIVE SortInsert(_, _)
SortInsert(sorted, x) ==
  IF sorted = <<>> THEN <<x>>
  ELSE IF sorted[Len(sorted)][1] <= x[1] THEN Append(sorted, x)
  ELSE Append(SortInsert(SubSeq(sorted, 1, Len(sorted) - 1), x),
              sorted[Len(sorted)])

\* sort with the call to list.sort left out
sort_omitted(l) == l

RECURSIVE sort(_)
sort(l) ==
  IF l = <<>> THEN <<>>
  ELSE SortInsert(sort(SubSeq(l, 1, Len(l) - 1)), l[Len(l)])

(***************************************************************************)
(* main_code.py: process_entire_json, from the response text on.           *)
(***************************************************************************)
\* the loop body with the continuation appended without the separating space
cli_LoopBody_nospace(st, rawline) ==
  LET line == strip(rawline)
  IN  IF line = <<>> THEN st
      ELSE IF re_match(line)
      THEN [translations |->
              IF st.current_index # None
              THEN Append(st.translations,
                          <<st.current_index, strip(st.current_text)>>)
              ELSE st.translations,
            current_index |-> int(group1(line)),
            current_text |-> strip(group2(line))]
      ELSE [st EXCEPT !.current_text = st.current_text \o line]

\* one iteration of the for loop over the lines
cli_LoopBody(st, rawline) ==
  LET line == strip(rawline)
  IN  IF line = <<>> THEN st
      ELSE IF re_match(line)
      THEN [translations |->
              IF st.current_index # None
              THEN Append(st.translations,
                          <<st.current_index, strip(st.current_text)>>)
              ELSE st.translations,
            current_index |-> int(group1(line)),
            current_text |-> strip(group2(line))]
      ELSE [st EXCEPT !.current_text = st.current_text \o <<" ">> \o line]

\* the for loop over the lines
RECURSIVE cli_Loop(_, _)
cli_Loop(st, lines) ==
  IF lines = <<>> THEN st
  ELSE cli_Loop(cli_LoopBody(st, Head(lines)), Tail(lines))

\* the last append done without the test for an open entry
cli_translations_unguarded(translated_text) ==
  LET st == cli_Loop([translations |-> <<>>, current_index |-> None,
                      current_text |-> <<>>],
                     split(translated_text))
  IN  Append(st.translations, <<st.current_index, strip(st.current_text)>>)

\* the list translations when the loop and the last append are done
cli_translations(translated_text) ==
  LET st == cli_Loop([translations |-> <<>>, current_index |-> None,
                      current_text |-> <<>>],
                     split(translated_text))
  IN  IF st.current_index # None
      THEN Append(st.translations,
                  <<st.current_index, strip(st.current_text)>>)
      ELSE st.translations

\* the warning printed when the counts differ
cli_Warning(translations, data) == Len(translations) # Len(data)

\* the range test with an exclusive upper end
RECURSIVE cli_InRange_exclusive(_, _)
cli_InRange_exclusive(translations, data) ==
  IF translations = <<>> THEN <<>>
  ELSE LET idx == Head(translations)[1]
           trans_text == Head(translations)[2]
       IN  (IF 1 <= idx /\ idx < Len(data)
            THEN <<[text |-> trans_text]>> ELSE <<>>)
           \o cli_InRange_exclusive(Tail(translations), data)

\* output_data after the loop over the sorted translations
RECURSIVE cli_InRange(_, _)
cli_InRange(translations, data) ==
  IF translations = <<>> THEN <<>>
  ELSE LET idx == Head(translations)[1]
           trans_text == Head(translations)[2]
       IN  (IF 1 <= idx /\ idx <= Len(data)
            THEN <<[text |-> trans_text]>> ELSE <<>>)
           \o cli_InRange(Tail(translations), data)

\* the padding taken from the first inputs instead of the trailing ones
cli_Pad_head(output_data, data) ==
  IF Len(output_data) < Len(data)
  THEN output_data \o
       [j \in 1..(Len(data) - Len(output_data)) |->
          [text |-> Placeholder(data[j].text)]]
  ELSE output_data

\* output_data after the placeholders are appended
cli_Pad(output_data, data) ==
  IF Len(output_data) < Len(data)
  THEN output_data \o
       [j \in 1..(Len(data) - Len(output_data)) |->
          [text |-> Placeholder(data[Len(output_data) + j].text)]]
  ELSE output_data

\* parsed: translations as the loop leaves it (line 92); translations: the
\* same list after the in-place sort (line 99)
process_entire_json(input, response_text) ==
  LET translations == cli_translations(strip(response_text))
  IN  [parsed |-> translations,
       translations |-> sort(translations),
       warning |-> cli_Warning(translations, input),
       output_data |-> cli_Pad(cli_InRange(sort(translations), input), input)]

(***************************************************************************)
(* streamlit_app.py: process_json, from the response text on.              *)
(***************************************************************************)
app_LoopBody(st, rawline) ==
  LET line == strip(rawline)
  IN  IF line = <<>> THEN st
      ELSE IF re_match(line)
      THEN [translations |->
              IF st.current_index # None
              THEN Append(st.translations,
                          <<st.current_index, strip(st.current_text)>>)
              ELSE st.translations,
            current_index |-> int(group1(line)),
            current_text |-> strip(group2(line))]
      ELSE [st EXCEPT !.current_text = st.current_text \o <<" ">> \o line]

RECURSIVE app_Loop(_, _)
app_Loop(st, lines) ==
  IF lines = <<>> THEN st
  ELSE app_Loop(app_LoopBody(st, Head(lines)), Tail(lines))

app_translations(translated_text) ==
  LET st == app_Loop([translations |-> <<>>, current_index |-> None,
                      current_text |-> <<>>],
                     split(translated_text))
  IN  IF st.current_index # None
      THEN Append(st.translations,
                  <<st.current_index, strip(st.current_text)>>)
      ELSE st.translations

\* the range test admitting ordinal 0
RECURSIVE app_InRange_zero(_, _)
app_InRange_zero(translations, data) ==
  IF translations = <<>> THEN <<>>
  ELSE LET idx == Head(translations)[1]
           trans_text == Head(translations)[2]
       IN  (IF 0 <= idx /\ idx <= Len(data)
            THEN <<[text |-> trans_text]>> ELSE <<>>)
           \o app_InRange_zero(Tail(translations), data)

RECURSIVE app_InRange(_, _)
app_InRange(translations, data) ==
  IF translations = <<>> THEN <<>>
  ELSE LET idx == Head(translations)[1]
           trans_text == Head(translations)[2]
       IN  (IF 1 <= idx /\ idx <= Len(data)
            THEN <<[text |-> trans_text]>> ELSE <<>>)
           \o app_InRange(Tail(translations), data)

app_Pad(output_data, data) ==
  IF Len(output_data) < Len(data)
  THEN output_data \o
       [j \in 1..(Len(data) - Len(output_data)) |->
          [text |-> Placeholder(data[Len(output_data) + j].text)]]
  ELSE output_data

\* process_json surfaces st.success only; it has no warning for a count
\* mismatch
process_json(input, response_text) ==
  LET translations == app_translations(strip(response_text))
  IN  [parsed |-> translations,
       translations |-> sort(translations),
       messages |-> {"success"},
       output_data |-> app_Pad(app_InRange(sort(translations), input), input)]

(***************************************************************************)
(* Inputs: the batch and the response of the external call.                *)
(***************************************************************************)
DigitChar(d) == <<"0", "1", "2", "3", "4", "5", "6", "7", "8", "9">>[d + 1]

\* the decimal numeral of n, as f"{n}" renders it
RECURSIVE Decimal(_)
Decimal(n) ==
  IF n < 10 THEN <<DigitChar(n)>>
  ELSE Decimal(n \div 10) \o <<DigitChar(n % 10)>>

\* the text of the input item at position i; distinct per position
InputText(i) == <<"E">> \o Decimal(i)

\* json.load of the input file: a list of {"text": ...} items
DataSet == {[i \in 1..n |-> [text |-> InputText(i)]] : n \in 0..MaxN}

\* the lines a response is made of: blank, continuation, marker lines with
\* and without surrounding whitespace, an empty entry, ordinal 0, an ordinal
\* beyond every batch, and a bracket that is no marker
LineSet ==
  { << " " >>,
    << "a", " ", "b" >>,
    << " ", "c", " " >>,
    << "[", "1", "]", " ", "a" >>,
    << " ", "[", "1", "]", "b", " " >>,
    << "[", "2", "]", " ", "b" >>,
    << "[", "2", "]" >>,
    << "[", "3", "]", " ", "c" >>,
    << "[", "0", "]", " ", "a" >>,
    << "[", "0", "1", "]", " ", "e" >>,
    << "a", " ", "[", "2", "]" >>,
    << "[", "1", "2", "]", " ", "d" >>,
    << "[", "x", "]", " ", "a" >> }

\* all sequences of at most n elements of S
SeqsUpTo(S, n) == UNION {[1..k -> S] : k \in 0..n}

\* response.text: the lines joined by newlines
RECURSIVE JoinLines(_)
JoinLines(lines) ==
  IF lines = <<>> THEN <<>>
  ELSE IF Len(lines) = 1 THEN lines[1]
  ELSE lines[1] \o <<"\n">> \o JoinLines(Tail(lines))

(***************************************************************************)
(* State.                                                                  *)
(***************************************************************************)
VARIABLES
  data,            \* the batch: the loaded input items
  response_lines,  \* the response of the external call, as its lines
  pc,              \* "called": response received; "cli_done"; "done"
  cli,             \* what process_entire_json computed and printed
  app,             \* what process_json computed and surfaced
  uploaded_file,   \* the file in the uploader: <<>> or <<file>>
  session_state    \* st.session_state, a dictionary from keys to values

vars == <<data, response_lines, pc, cli, app, uploaded_file, session_state>>

batchVars == <<data, response_lines, pc, cli, app>>

sessionVars == <<uploaded_file, session_state>>

\* before the entry point has run: nothing parsed, printed or surfaced
cli_NotRun ==
  [parsed |-> <<>>, translations |-> <<>>, warning |-> FALSE,
   output_data |-> <<>>]

app_NotRun ==
  [parsed |-> <<>>, translations |-> <<>>, messages |-> {},
   output_data |-> <<>>]

(***************************************************************************)
(* The parse-and-reassemble function applied by both entry points to the   *)
(* same batch and response.                                                *)
(***************************************************************************)
Init ==
  /\ data \in DataSet
  /\ response_lines \in SeqsUpTo(LineSet, MaxLines)
  /\ pc = "called"
  /\ cli = cli_NotRun
  /\ app = app_NotRun
  /\ uploaded_file = <<>>
  /\ session_state = <<>>

RunCli ==
  /\ pc = "called"
  /\ cli' = process_entire_json(data, JoinLines(response_lines))
  /\ pc' = "cli_done"
  /\ UNCHANGED <<data, response_lines, app, sessionVars>>

RunApp ==
  /\ pc = "cli_done"
  /\ app' = process_json(data, JoinLines(response_lines))
  /\ pc' = "done"
  /\ UNCHANGED <<data, response_lines, cli, sessionVars>>

Next == RunCli \/ RunApp

Spec == Init /\ [][Next]_vars

(***************************************************************************)
(* streamlit_app.py: the interactive session. Every action is one user     *)
(* interaction and the script run it triggers; st.session_state is what    *)
(* survives from one run to the next.                                      *)
(***************************************************************************)
\* dict[k] = v
Put(dict, k, v) ==
  [x \in DOMAIN dict \cup {k} |-> IF x = k THEN v ELSE dict[x]]

\* the files a user can put in the uploader: JSON arrays of items, and a
\* file that json.load rejects
SessionData ==
  DataSet \cup
    {[i \in 1..n |-> [text |-> <<"F">> \o Decimal(i)]] : n \in 1..MaxN}

Files ==
  {[valid |-> TRUE, content |-> d] : d \in SessionData}
    \cup {[valid |-> FALSE, content |-> <<>>]}

\* the responses of the external call during a session
SessionResponses == SeqsUpTo(LineSet, MaxSessionLines)

\* lines 186-213: the preview loads the file only when the session has no
\* input_data yet; json.load raising ends in st.error and changes nothing
Preview(ss, upl) ==
  IF upl # <<>> /\ "input_data" \notin DOMAIN ss /\ upl[1].valid
  THEN Put(ss, "input_data", upl[1].content)
  ELSE ss

\* lines 224-236: the rows of the side-by-side view and of the CSV export
comparison_data ==
  IF /\ "output_data" \in DOMAIN session_state
     /\ session_state.output_data # <<>>
     /\ "input_data" \in DOMAIN session_state
  THEN LET inp == session_state.input_data
           out == session_state.output_data
           n == IF Len(inp) < Len(out) THEN Len(inp) ELSE Len(out)
       IN  [i \in 1..n |->
              [No |-> i, English |-> inp[i].text, Hinglish |-> out[i].text]]
  ELSE <<>>

InitSession ==
  /\ data = <<>>
  /\ response_lines = <<>>
  /\ pc = "session"
  /\ cli = cli_NotRun
  /\ app = app_NotRun
  /\ uploaded_file = <<>>
  /\ session_state = <<>>

\* the user puts a file in the uploader; the run shows the preview
Upload ==
  \E f \in Files :
    /\ uploaded_file' = <<f>>
    /\ session_state' = Preview(session_state, <<f>>)
    /\ UNCHANGED batchVars

\* the user removes the file; the run shows the sample
RemoveFile ==
  /\ uploaded_file # <<>>
  /\ uploaded_file' = <<>>
  /\ UNCHANGED <<session_state, batchVars>>

\* Translate clicked, json.load raises at line 173 and again in the preview
TranslateInvalidJson ==
  /\ uploaded_file # <<>>
  /\ ~uploaded_file[1].valid
  /\ session_state' = Preview(session_state, uploaded_file)
  /\ UNCHANGED <<uploaded_file, batchVars>>

\* Translate clicked, input_data stored at line 174, the external call (or
\* response.text) raises inside process_json: caught at line 182
TranslateRaises ==
  /\ uploaded_file # <<>>
  /\ uploaded_file[1].valid
  /\ session_state' =
       Preview(Put(session_state, "input_data", uploaded_file[1].content),
               uploaded_file)
  /\ UNCHANGED <<uploaded_file, batchVars>>

\* Translate clicked and the external call answers: lines 173-180, then the
\* rerun of the script (the elapsed time is not modelled, only its key)
TranslateSucceeds ==
  \E r \in SessionResponses :
    /\ uploaded_file # <<>>
    /\ uploaded_file[1].valid
    /\ LET input_data == uploaded_file[1].content
           s1 == Put(session_state, "input_data", input_data)
           s2 == Put(s1, "translation_time", 0)
           output_data == process_json(input_data, JoinLines(r)).output_data
           s3 == Put(s2, "output_data", output_data)
           s4 == Put(s3, "tab_index", 1)
       IN  session_state' = Preview(s4, uploaded_file)
    /\ UNCHANGED <<uploaded_file, batchVars>>

NextSession ==
  \/ Upload
  \/ RemoveFile
  \/ TranslateInvalidJson
  \/ TranslateRaises
  \/ TranslateSucceeds

SpecSession == InitSession /\ [][NextSession]_vars

(***************************************************************************)
(* Vocabulary of the properties, stated on the response lines themselves.  *)
(***************************************************************************)
N == Len(data)

CliDone == pc \in {"cli_done", "done"}

Done == pc = "done"

HasPrefix(s, p) == Len(s) >= Len(p) /\ SubSeq(s, 1, Len(p)) = p

\* the marker [k]
Marker(k) == <<"[">> \o Decimal(k) \o <<"]">>

\* the position of the ] that closes a [digits] marker at the start of t
MarkerEnds(t) ==
  {j \in 3..Len(t) : t[j] = "]" /\ \A i \in 2..(j - 1) : t[i] \in Digits}

\* the line, trimmed, starts with a [digits] marker
StartsWithMarker(line) ==
  LET t == strip(line)
  IN  Len(t) >= 3 /\ t[1] = "[" /\ MarkerEnds(t) # {}

\* the trimmed remainder of a marker line
Remainder(line) ==
  LET t == strip(line)
      j == CHOOSE j \in MarkerEnds(t) : TRUE
  IN  strip(SubSeq(t, j + 1, Len(t)))

MarkerLines ==
  {m \in 1..Len(response_lines) : StartsWithMarker(response_lines[m])}

Blank(line) == strip(line) = <<>>

\* the k-th smallest element of a set of numbers
Nth(S, k) == CHOOSE x \in S : Cardinality({y \in S : y < x}) = k - 1

\* the last line of the entry that the marker line m opens
EntryEnd(m) ==
  LET later == {x \in MarkerLines : x > m}
  IN  IF later = {} THEN Len(response_lines) ELSE SetMin(later) - 1

RECURSIVE JoinSp(_)
JoinSp(pieces) ==
  IF pieces = <<>> THEN <<>>
  ELSE IF Len(pieces) = 1 THEN pieces[1]
  ELSE pieces[1] \o <<" ">> \o JoinSp(Tail(pieces))

NonEmpty(x) == x # <<>>

\* the non-empty trimmed pieces of the entry that the marker line m opens
Pieces(m) ==
  SelectSeq(<<Remainder(response_lines[m])>> \o
              [j \in 1..(EntryEnd(m) - m) |-> strip(response_lines[m + j])],
            NonEmpty)

\* the parsed entries whose ordinal lies in 1..N, in response order
InRangeEntries(parsed) ==
  LET InRange(e) == 1 <= e[1] /\ e[1] <= N
  IN  SelectSeq(parsed, InRange)

(***************************************************************************)
(* C1: for every input of length N and every response, the output of       *)
(* process_entire_json and of process_json has length exactly N.           *)
(***************************************************************************)
C1_OutputLengthIsN ==
  /\ CliDone => Len(cli.output_data) = N
  /\ Done => Len(app.output_data) = N

(***************************************************************************)
(* C2: when the response is exactly the marker lines [1]..[N] in ascending *)
(* order, one line per entry, the output has length N and output[i] is the *)
(* trimmed text that follows marker [i].                                   *)
(***************************************************************************)
WellFormed ==
  /\ Len(response_lines) = N
  /\ \A i \in 1..N : HasPrefix(strip(response_lines[i]), Marker(i))

TextAfter(line, k) ==
  strip(SubSeq(strip(line), Len(Marker(k)) + 1, Len(strip(line))))

RoundTrip(res) ==
  /\ Len(res.output_data) = N
  /\ \A i \in 1..N : res.output_data[i] = [text |-> TextAfter(response_lines[i], i)]

C2_WellFormedRoundTrip ==
  /\ CliDone /\ WellFormed => RoundTrip(cli)
  /\ Done /\ WellFormed => RoundTrip(app)

C2_Witness ==
  /\ Done /\ WellFormed /\ N >= 2
  /\ response_lines[1] # strip(response_lines[1])
  /\ cli.output_data[1] # cli.output_data[2]

(***************************************************************************)
(* C3: order independence. When the response holds the N entries [1]..[N], *)
(* each ordinal exactly once, in any order (an entry is its marker line    *)
(* and the lines up to the next marker line), the output is the same as    *)
(* for the response with the entries in ascending order.                   *)
(***************************************************************************)
LinesMarked(i) ==
  {m \in MarkerLines : HasPrefix(strip(response_lines[m]), Marker(i))}

PermutedEntries ==
  /\ Cardinality(MarkerLines) = N
  /\ \A i \in 1..N : Cardinality(LinesMarked(i)) = 1
  /\ \A m \in 1..Len(response_lines) :
       (\A x \in MarkerLines : m < x) => Blank(response_lines[m])

EntryLines(i) ==
  LET m == CHOOSE m \in LinesMarked(i) : TRUE
  IN  SubSeq(response_lines, m, EntryEnd(m))

RECURSIVE AscendingFrom(_)
AscendingFrom(i) ==
  IF i > N THEN <<>> ELSE EntryLines(i) \o AscendingFrom(i + 1)

C3_OrderIndependence ==
  /\ CliDone /\ PermutedEntries =>
       cli.output_data =
         process_entire_json(data, JoinLines(AscendingFrom(1))).output_data
  /\ Done /\ PermutedEntries =>
       app.output_data =
         process_json(data, JoinLines(AscendingFrom(1))).output_data

C3_Witness ==
  /\ Done /\ PermutedEntries /\ N = 3
  /\ LinesMarked(3) = {1} /\ LinesMarked(1) = {3}
  /\ Len(cli.output_data) = 3
  /\ cli.output_data[1] = [text |-> Remainder(response_lines[3])]

(***************************************************************************)
(* C4: shortfall alignment. When the response has entries for only some of *)
(* the ordinals 1..N, the output has length N, a position whose ordinal is *)
(* present carries that entry's text and a position whose ordinal is       *)
(* missing carries the placeholder of the input text at that position.     *)
(***************************************************************************)
SomeOrdinalsOnly(parsed) ==
  \A a \in 1..Len(parsed) :
    /\ parsed[a][1] \in 1..N
    /\ \A b \in 1..Len(parsed) : parsed[a][1] = parsed[b][1] => a = b

Aligned(res) ==
  /\ Len(res.output_data) = N
  /\ \A i \in 1..N :
       LET at == {a \in 1..Len(res.parsed) : res.parsed[a][1] = i}
       IN  IF at = {}
           THEN res.output_data[i] = [text |-> Placeholder(data[i].text)]
           ELSE \A a \in at : res.output_data[i] = [text |-> res.parsed[a][2]]

C4_ShortfallAlignment ==
  /\ CliDone /\ SomeOrdinalsOnly(cli.parsed) => Aligned(cli)
  /\ Done /\ SomeOrdinalsOnly(app.parsed) => Aligned(app)

(***************************************************************************)
(* C5: a response with no line starting with a [digits] marker (empty,     *)
(* whitespace only, prose) parses to an empty entry list, and the output   *)
(* has length N with the placeholder of input i at every position i.       *)
(***************************************************************************)
AllPlaceholders(res) ==
  /\ res.parsed = <<>>
  /\ Len(res.output_data) = N
  /\ \A i \in 1..N : res.output_data[i] = [text |-> Placeholder(data[i].text)]

C5_GarbageAllPlaceholders ==
  /\ CliDone /\ MarkerLines = {} => AllPlaceholders(cli)
  /\ Done /\ MarkerLines = {} => AllPlaceholders(app)

C5_Witness ==
  /\ Done /\ MarkerLines = {} /\ N >= 2
  /\ \E m \in 1..Len(response_lines) : HasPrefix(response_lines[m], <<"[">>)
  /\ \E m \in 1..Len(response_lines) : Blank(response_lines[m])
  /\ Len(cli.output_data) = N

(***************************************************************************)
(* C6: multi-line entries. There is one parsed entry per marker line, in   *)
(* response order, and its text is the trimmed remainder of the marker     *)
(* line and the trimmed non-empty lines up to the next marker line, joined *)
(* by single spaces with no leading or trailing space; blank lines and the *)
(* lines before the first marker line contribute to no entry.              *)
(***************************************************************************)
EntriesJoined(res) ==
  /\ Len(res.parsed) = Cardinality(MarkerLines)
  /\ \A k \in 1..Cardinality(MarkerLines) :
       res.parsed[k][2] = JoinSp(Pieces(Nth(MarkerLines, k)))

C6_MultiLineEntries ==
  /\ CliDone => EntriesJoined(cli)
  /\ Done => EntriesJoined(app)

C6_Witness ==
  /\ Done /\ Len(response_lines) = 3
  /\ MarkerLines = {2}
  /\ ~Blank(response_lines[1])
  /\ Len(Pieces(2)) = 2
  /\ Len(cli.parsed) = 1

(***************************************************************************)
(* C7: a warning is surfaced to the caller exactly when the number of      *)
(* entries recovered for positions 1..N differs from N, in the CLI flow    *)
(* and in the interactive flow alike (processing completes either way).    *)
(***************************************************************************)
C7_WarningIffCountDiffers ==
  /\ CliDone => (cli.warning <=> Len(InRangeEntries(cli.parsed)) # N)
  /\ Done => ("warning" \in app.messages <=> Len(InRangeEntries(app.parsed)) # N)

(***************************************************************************)
(* C8: tail padding. With k the number of parsed entries whose ordinal is  *)
(* in 1..N, the output begins with exactly those k texts in ascending      *)
(* ordinal order (equal ordinals in response order), and if k < N it is    *)
(* followed by the placeholders of the inputs k+1..N; if k >= N nothing is *)
(* appended.                                                               *)
(***************************************************************************)
\* the place of the a-th in-range entry among the in-range entries
Rank(F, a) ==
  1 + Cardinality({b \in 1..Len(F) :
                     F[b][1] < F[a][1] \/ (F[b][1] = F[a][1] /\ b < a)})

TailPadded(res) ==
  LET F == InRangeEntries(res.parsed)
      k == Len(F)
  IN  /\ Len(res.output_data) = IF k < N THEN N ELSE k
      /\ \A a \in 1..k : res.output_data[Rank(F, a)] = [text |-> F[a][2]]
      /\ \A i \in (k + 1)..N :
           res.output_data[i] = [text |-> Placeholder(data[i].text)]

C8_TailPadding ==
  /\ CliDone => TailPadded(cli)
  /\ Done => TailPadded(app)

C8_Witness ==
  /\ Done /\ N = 3
  /\ Len(cli.parsed) = 3
  /\ Len(InRangeEntries(cli.parsed)) = 2
  /\ InRangeEntries(cli.parsed)[1][1] > InRangeEntries(cli.parsed)[2][1]
  /\ cli.output_data[3] = [text |-> Placeholder(data[3].text)]

(***************************************************************************)
(* C9: in the interactive session, whenever the session state holds both   *)
(* input_data and output_data, output_data is the result of processing     *)
(* exactly the retained input_data, so the side-by-side view never pairs   *)
(* one batch's inputs with another batch's outputs. Stated where the view  *)
(* is rendered (output_data not empty).                                    *)
(***************************************************************************)
C9_SessionPairIsOneBatch ==
  comparison_data # <<>>
    => \E r \in SessionResponses :
         session_state.output_data =
           process_json(session_state.input_data, JoinLines(r)).output_data

(***************************************************************************)
(* C10: for every input and every response, process_entire_json and        *)
(* process_json return the same output sequence.                           *)
(***************************************************************************)
C10_EntryPointsAgree == Done => cli.output_data = app.output_data

C10_Witness ==
  /\ Done /\ N >= 2
  /\ Len(cli.parsed) >= 2
  /\ Len(InRangeEntries(cli.parsed)) = 1
  /\ Len(app.output_data) = N

====
